---------------------------- MODULE Spec2Model ----------------------------
(***************************************************************************)
(* Model of src/src/index.ts: the "generate-image" tool of the jimengpic   *)
(* MCP server.  One tool invocation checks the configuration, builds a     *)
(* prompt and a JSON body, signs the request (signV4Request, an            *)
(* AWS-SigV4-style HMAC chain), issues one fetch, and turns the upstream   *)
(* answer into one text response.                                          *)
(*                                                                         *)
(* Strings are TLA+ strings; characters are read with SubSeq.  SHA-256 and *)
(* HMAC-SHA256 are modelled as free (collision-free) constructors.  The    *)
(* Chinese string literals of the source are written as ASCII stand-ins,   *)
(* each quoted in a comment, because the module text is ASCII.             *)
(***************************************************************************)
EXTENDS Integers, Sequences, FiniteSets, TLC

VARIABLES
    JIMENG_ACCESS_KEY,  \* process.env.JIMENG_ACCESS_KEY, read once at load
    JIMENG_SECRET_KEY,  \* process.env.JIMENG_SECRET_KEY, read once at load
    now,                \* the system clock, in ms after ClockBase
    running,            \* the invocation whose synchronous segment runs, or 0
    pc,                 \* each invocation's position
    frame,              \* the local variables of handler, callJimengAPI, signV4Request
    req,                \* the arguments the transport delivered to each invocation
    tRead,              \* the clock value each invocation's new Date() returned
    resp,               \* the upstream answer delivered to each invocation
    sent,               \* the HTTP requests each invocation issued, in order
    hmacCount,          \* crypto.createHmac calls made by each invocation
    clockReads,         \* new Date() calls made by each invocation
    errorLog,           \* what each invocation wrote with console.error
    outcome,            \* how the handler's promise settled, and with what text
    runIn,              \* signing harness: the inputs of two signing runs
    runOut,             \* signing harness: what each run produced
    runPc               \* signing harness: each run's position

mainVars == <<JIMENG_ACCESS_KEY, JIMENG_SECRET_KEY, now, running, pc, frame, req,
              tRead, resp, sent, hmacCount, clockReads, errorLog, outcome>>
signVars == <<runIn, runOut, runPc>>
vars == <<mainVars, signVars>>

---------------------------------------------------------------------------
(* Bounds *)

\* The clock advances at most MaxTicks times, by half a second each time.
MaxTicks == 2

Invocations == {1, 2}
Runs == {1, 2}

---------------------------------------------------------------------------
(* Strings *)

Char(s, i) == SubSeq(s, i, i)

Digits == "0123456789"

IsDigit(c) == \E i \in 1..Len(Digits) : Char(Digits, i) = c

\* The characters the model's keys use, in ascending UTF-16 code-unit order.
Alphabet == "&-./0123456789:=ABCDEFGHIJKLMNOPQRSTUVWXYZ_abcdefghijklmnopqrstuvwxyz"

CodeTable ==
    [c \in {Char(Alphabet, i) : i \in 1..Len(Alphabet)} |->
        CHOOSE i \in 1..Len(Alphabet) : Char(Alphabet, i) = c]

CodeOrder(c) == CodeTable[c]

\* a < b as JavaScript compares strings: by code unit, a proper prefix first.
RECURSIVE StrLess(_, _)
StrLess(a, b) ==
    IF Len(b) = 0 THEN FALSE
    ELSE IF Len(a) = 0 THEN TRUE
    ELSE IF Char(a, 1) = Char(b, 1)
         THEN StrLess(SubSeq(a, 2, Len(a)), SubSeq(b, 2, Len(b)))
         ELSE CodeOrder(Char(a, 1)) < CodeOrder(Char(b, 1))

\* Array.prototype.join
RECURSIVE Join(_, _)
Join(parts, sep) ==
    IF Len(parts) = 0 THEN ""
    ELSE IF Len(parts) = 1 THEN parts[1]
    ELSE parts[1] \o sep \o Join(Tail(parts), sep)

Contains(s, sub) ==
    \E i \in 1..(Len(s) - Len(sub) + 1) : SubSeq(s, i, i + Len(sub) - 1) = sub

StartsWithAt(s, i, pat) ==
    /\ i + Len(pat) - 1 <= Len(s)
    /\ SubSeq(s, i, i + Len(pat) - 1) = pat

\* n in decimal, left-padded with zeros to width w
RECURSIVE Pad(_, _)
Pad(n, w) ==
    IF w = 0 THEN ""
    ELSE Pad(n \div 10, w - 1) \o Char(Digits, (n % 10) + 1)

---------------------------------------------------------------------------
(* Module constants *)

ENDPOINT == "https://visual.volcengineapi.com"
HOST == "visual.volcengineapi.com"
REGION == "cn-north-1"
SERVICE == "cv"

Ratios == {"4:3", "3:4", "16:9", "9:16"}

RATIO_MAPPING ==
    [r \in Ratios |->
        CASE r = "4:3"  -> [width |-> 768, height |-> 576]
          [] r = "3:4"  -> [width |-> 576, height |-> 768]
          [] r = "16:9" -> [width |-> 768, height |-> 432]
          [] r = "9:16" -> [width |-> 432, height |-> 768]]

\* An environment variable: undefined, or a string (possibly empty).
EnvUndefined == [defined |-> FALSE, value |-> ""]
EnvString(s) == [defined |-> TRUE, value |-> s]

\* !x for x: string | undefined
Falsy(x) == ~x.defined \/ x.value = ""

---------------------------------------------------------------------------
(* crypto: collision-free stand-ins *)

\* crypto.createHash('sha256').update(m).digest('hex')
Sha256Hex(m) == "sha256(" \o m \o ")"

\* crypto.createHmac('sha256', k).update(m).digest(): the length prefix keeps
\* the pair (k, m) recoverable, so distinct pairs give distinct digests.
Hmac(k, m) == "hmac(" \o ToString(Len(k)) \o ":" \o k \o "," \o m \o ")"

\* crypto.createHmac('sha256', k).update(m).digest('hex')
HmacHex(k, m) == "hex:" \o Hmac(k, m)

getSignatureKey(key, dateStamp, regionName, serviceName) ==
    LET kDate == Hmac(key, dateStamp)
        kRegion == Hmac(kDate, regionName)
        kService == Hmac(kRegion, serviceName)
        kSigning == Hmac(kService, "request")
    IN  kSigning

---------------------------------------------------------------------------
(* The clock and Date formatting *)

\* The instant the clock shows at now = 0: 2024-12-31T23:59:59.000Z.
ClockBase == [year |-> 2024, month |-> 12, day |-> 31, hour |-> 23,
              minute |-> 59, second |-> 59, ms |-> 0]

\* new Date() when the clock shows ms milliseconds after ClockBase (less than
\* a minute): the second may roll over into the first minute of 2025.
DateOf(ms) ==
    LET total == ClockBase.second * 1000 + ClockBase.ms + ms
        sec == total \div 1000
    IN  IF sec < 60
        THEN [ClockBase EXCEPT !.second = sec, !.ms = total % 1000]
        ELSE [year |-> ClockBase.year + 1, month |-> 1, day |-> 1, hour |-> 0,
              minute |-> 0, second |-> sec - 60, ms |-> total % 1000]

\* Date.prototype.toISOString: YYYY-MM-DDTHH:mm:ss.sssZ
ToISOString(t) ==
    Pad(t.year, 4) \o "-" \o Pad(t.month, 2) \o "-" \o Pad(t.day, 2) \o "T"
    \o Pad(t.hour, 2) \o ":" \o Pad(t.minute, 2) \o ":" \o Pad(t.second, 2)
    \o "." \o Pad(t.ms, 3) \o "Z"

\* Whether the regular expression \.\d{3} matches s at position i.
FractionAt(s, i) ==
    /\ i >= 1
    /\ i + 3 <= Len(s)
    /\ Char(s, i) = "."
    /\ \A j \in (i + 1)..(i + 3) : IsDigit(Char(s, j))

\* Whether position i of s lies in a match of /[:\-]|\.\d{3}/g.  A match of
\* the second alternative starts at a "." and holds no other ".", so the
\* matches a left-to-right scan finds are exactly these.
InDateMatch(s, i) ==
    \/ Char(s, i) \in {":", "-"}
    \/ \E d \in 0..3 : FractionAt(s, i - d)

\* s.replace(/[:\-]|\.\d{3}/g, '') on the characters lo..hi of s, by halves.
RECURSIVE StripDateIn(_, _, _)
StripDateIn(s, lo, hi) ==
    IF lo > hi THEN ""
    ELSE IF lo = hi THEN (IF InDateMatch(s, lo) THEN "" ELSE Char(s, lo))
    ELSE LET mid == (lo + hi) \div 2
         IN  StripDateIn(s, lo, mid) \o StripDateIn(s, mid + 1, hi)

CurrentDate(t) == StripDateIn(ToISOString(t), 1, Len(ToISOString(t)))

\* currentDate.substring(0, 8)
Datestamp(currentDate) == SubSeq(currentDate, 1, 8)

---------------------------------------------------------------------------
(* formatQuery *)

\* A parameter object is the sequence of its <<key, value>> entries in
\* insertion order; keys are distinct and not integer-like.
Keys(parameters) == [j \in 1..Len(parameters) |-> parameters[j][1]]

ValueOf(parameters, key) ==
    LET j == CHOOSE j \in 1..Len(parameters) : parameters[j][1] = key
    IN  parameters[j][2]

\* Array.prototype.sort() with the default comparator
RECURSIVE Insert(_, _)
Insert(k, sorted) ==
    IF Len(sorted) = 0 THEN <<k>>
    ELSE IF StrLess(k, sorted[1]) THEN <<k>> \o sorted
    ELSE <<sorted[1]>> \o Insert(k, Tail(sorted))

RECURSIVE Sort(_)
Sort(ks) == IF Len(ks) = 0 THEN <<>> ELSE Insert(ks[1], Sort(Tail(ks)))

\* Object.keys(parameters) without the .sort(): insertion order.
UnsortedKeys(parameters) == Keys(parameters)

\* Object.keys(parameters).sort()
SortedKeys(parameters) == Sort(Keys(parameters))

formatQuery(parameters) ==
    LET sortedKeys == SortedKeys(parameters)
    IN  Join([j \in 1..Len(sortedKeys) |->
                 sortedKeys[j] \o "=" \o ValueOf(parameters, sortedKeys[j])], "&")

---------------------------------------------------------------------------
(* signV4Request, statement by statement *)

method == "POST"
canonicalUri == "/"
signedHeaders == "content-type;host;x-content-sha256;x-date"
contentType == "application/json"
algorithm == "HMAC-SHA256"

PayloadHash(reqBody) == Sha256Hex(reqBody)

CanonicalHeaders(payloadHash, currentDate) ==
    Join(<<"content-type:" \o contentType,
           "host:" \o HOST,
           "x-content-sha256:" \o payloadHash,
           "x-date:" \o currentDate>>, "\n") \o "\n"

\* A canonical request that leaves the query string out.
CanonicalRequestNoQuery(canonicalQuerystring, canonicalHeaders, payloadHash) ==
    Join(<<method, canonicalUri, "", canonicalHeaders, signedHeaders,
           payloadHash>>, "\n")

CanonicalRequest(canonicalQuerystring, canonicalHeaders, payloadHash) ==
    Join(<<method, canonicalUri, canonicalQuerystring, canonicalHeaders,
           signedHeaders, payloadHash>>, "\n")

CredentialScope(datestamp, service) ==
    datestamp \o "/" \o REGION \o "/" \o service \o "/request"

StringToSign(currentDate, credentialScope, canonicalRequest) ==
    Join(<<algorithm, currentDate, credentialScope,
           Sha256Hex(canonicalRequest)>>, "\n")

Signature(signingKey, stringToSign) == HmacHex(signingKey, stringToSign)

AuthorizationHeader(accessKey, credentialScope, signature) ==
    algorithm \o " Credential=" \o accessKey \o "/" \o credentialScope
    \o ", SignedHeaders=" \o signedHeaders \o ", Signature=" \o signature

\* Headers whose X-Date comes from a second reading of the clock.
SignHeadersRereadClock(currentDate, authorizationHeader, payloadHash) ==
    [XDate |-> CurrentDate(DateOf(now)),
     Authorization |-> authorizationHeader,
     XContentSha256 |-> payloadHash,
     ContentType |-> contentType]

SignHeaders(currentDate, authorizationHeader, payloadHash) ==
    [XDate |-> currentDate,
     Authorization |-> authorizationHeader,
     XContentSha256 |-> payloadHash,
     ContentType |-> contentType]

RequestUrl(canonicalQuerystring) == ENDPOINT \o "?" \o canonicalQuerystring

\* One whole call, t being the value its single new Date() returns: every
\* local of the function, the returned {headers, requestUrl} among them.
signV4Request(accessKey, secretKey, service, reqQuery, reqBody, t) ==
    LET currentDate == CurrentDate(t)
        datestamp == Datestamp(currentDate)
        payloadHash == PayloadHash(reqBody)
        canonicalHeaders == CanonicalHeaders(payloadHash, currentDate)
        canonicalRequest == CanonicalRequest(reqQuery, canonicalHeaders, payloadHash)
        credentialScope == CredentialScope(datestamp, service)
        stringToSign == StringToSign(currentDate, credentialScope, canonicalRequest)
        signingKey == getSignatureKey(secretKey, datestamp, REGION, service)
        signature == Signature(signingKey, stringToSign)
        authorizationHeader == AuthorizationHeader(accessKey, credentialScope, signature)
    IN  [currentDate |-> currentDate,
         datestamp |-> datestamp,
         payloadHash |-> payloadHash,
         canonicalHeaders |-> canonicalHeaders,
         canonicalRequest |-> canonicalRequest,
         credentialScope |-> credentialScope,
         stringToSign |-> stringToSign,
         signingKey |-> signingKey,
         signature |-> signature,
         headers |-> SignHeaders(currentDate, authorizationHeader, payloadHash),
         requestUrl |-> RequestUrl(reqQuery)]

\* The locals before the function has run.
NoSign ==
    [currentDate |-> "", datestamp |-> "", payloadHash |-> "",
     canonicalHeaders |-> "", canonicalRequest |-> "", credentialScope |-> "",
     stringToSign |-> "", signingKey |-> "", signature |-> "",
     headers |-> SignHeaders("", "", ""), requestUrl |-> ""]

---------------------------------------------------------------------------
(* Signing harness: formatQuery and signV4Request on drawn inputs *)

\* const queryParams of callJimengAPI
queryParams == <<<<"Action", "CVProcess">>, <<"Version", "2022-08-31">>>>

ParamChoices ==
    { queryParams,
      <<<<"Version", "2022-08-31">>, <<"Action", "CVProcess">>>>,
      <<<<"b", "2">>, <<"ab", "4">>, <<"B", "3">>, <<"a", "1">>>> }

BodyChoices == {"", "{\"a\":1}"}
AccessKeyChoices == {"AK", "AK2"}
SecretKeyChoices == {"SK", "SK2"}
ClockChoices == {n * 500 : n \in 0..MaxTicks}

RunInputs ==
    [parameters : ParamChoices, body : BodyChoices, accessKey : AccessKeyChoices,
     secretKey : SecretKeyChoices, clock : ClockChoices]

NoRun == [query |-> "", sig |-> NoSign]

InitRuns ==
    /\ runIn \in [Runs -> RunInputs]
    /\ runOut = [r \in Runs |-> NoRun]
    /\ runPc = [r \in Runs |-> "new"]

\* const formattedQuery = formatQuery(queryParams)
RunFormat(r) ==
    /\ runPc[r] = "new"
    /\ \A q \in Runs : q < r => runPc[q] = "signed"
    /\ runOut' = [runOut EXCEPT ![r].query = formatQuery(runIn[r].parameters)]
    /\ runPc' = [runPc EXCEPT ![r] = "formatted"]
    /\ UNCHANGED runIn

\* signV4Request(accessKey, secretKey, SERVICE, formattedQuery, formattedBody)
RunSign(r) ==
    /\ runPc[r] = "formatted"
    /\ runOut' = [runOut EXCEPT ![r].sig =
                     signV4Request(runIn[r].accessKey, runIn[r].secretKey, SERVICE,
                                   runOut[r].query, runIn[r].body,
                                   DateOf(runIn[r].clock))]
    /\ runPc' = [runPc EXCEPT ![r] = "signed"]
    /\ UNCHANGED runIn

NextSign ==
    \/ \E r \in Runs : RunFormat(r) /\ UNCHANGED mainVars
    \/ \E r \in Runs : RunSign(r) /\ UNCHANGED mainVars


---------------------------------------------------------------------------
(* JavaScript values and the upstream's answers *)

\* A value read out of the parsed response: null/undefined, a string, or an
\* object that has no primitive form (such as {"toString":1}).
JsNull == [t |-> "null", s |-> ""]
JsString(x) == [t |-> "string", s |-> x]
JsOpaqueObject == [t |-> "object", s |-> ""]

\* !v
JsFalsy(v) == v.t = "null" \/ (v.t = "string" /\ v.s = "")

\* The JSON document of a response body.  shape: not JSON at all, the literal
\* null, or an object.  meta: ResponseMetadata absent, present without Error,
\* or with Error.  message: Error.Message as written in the body ("" when
\* absent).  data: data absent, data without image_urls, or with image_urls.
\* Strings are kept as written between their quotes in the body.
Doc(shape, meta, message, data, urls) ==
    [shape |-> shape, meta |-> meta, message |-> message, data |-> data,
     urls |-> urls]

NoDoc == Doc("malformed", "none", "", "none", <<>>)

\* What the upstream does with one request: fetch rejects or resolves with a
\* status, and reading the body rejects or yields a document.
Answer(net, status, read, doc) ==
    [net |-> net, ok |-> (status \in 200..299), status |-> status, read |-> read,
     doc |-> doc]

NoAnswer == Answer("none", 0, "none", NoDoc)

AnsReject == Answer("reject", 0, "none", NoDoc)
AnsHttp500 == Answer("resolve", 500, "resolve", NoDoc)
AnsReadFails == Answer("resolve", 200, "reject", NoDoc)
AnsMalformed == Answer("resolve", 200, "resolve", NoDoc)
AnsBadEscape ==
    Answer("resolve", 200, "resolve",
           Doc("object", "noerror", "", "urls", <<JsString("https://i/2?a=1\\\\u0026b=2")>>))
AnsNull == Answer("resolve", 200, "resolve", Doc("null", "none", "", "none", <<>>))
AnsError ==
    Answer("resolve", 200, "resolve", Doc("object", "error", "Access Denied", "none", <<>>))
AnsNoUrls == Answer("resolve", 200, "resolve", Doc("object", "noerror", "", "urls", <<>>))
AnsUrl ==
    Answer("resolve", 200, "resolve",
           Doc("object", "noerror", "", "urls", <<JsString("https://i/1?a=1\\u0026b=2")>>))
AnsOpaqueUrl ==
    Answer("resolve", 200, "resolve", Doc("object", "noerror", "", "urls", <<JsOpaqueObject>>))

Answers ==
    {AnsReject, AnsHttp500, AnsReadFails, AnsMalformed, AnsBadEscape, AnsNull,
     AnsError, AnsNoUrls, AnsUrl, AnsOpaqueUrl}

\* The six characters & as they stand in a response body.
EscapedAmpersand == "\\u0026"

\* responseText.replace(/\\u0026/g, "&") on the characters lo..hi of one
\* string of the body, by halves.  The pattern starts with its only
\* backslash, so its matches cannot overlap.
RECURSIVE CleanedIn(_, _, _)
CleanedIn(raw, lo, hi) ==
    IF lo > hi THEN ""
    ELSE IF lo = hi
         THEN IF StartsWithAt(raw, lo, EscapedAmpersand) THEN "&"
              ELSE IF \E d \in 1..(Len(EscapedAmpersand) - 1) :
                         lo - d >= 1 /\ StartsWithAt(raw, lo - d, EscapedAmpersand)
                   THEN ""
                   ELSE Char(raw, lo)
    ELSE LET mid == (lo + hi) \div 2
         IN  CleanedIn(raw, lo, mid) \o CleanedIn(raw, mid + 1, hi)

Cleaned(raw) == CleanedIn(raw, 1, Len(raw))

\* JSON.parse on one string of the body.  A backslash introduces an escape
\* when an even number of backslashes stands right before it.
BackslashesBefore(raw, i) ==
    Cardinality({k \in 1..(i - 1) : \A j \in (i - k)..(i - 1) : Char(raw, j) = "\\"})

IntroducesEscape(raw, i) ==
    Char(raw, i) = "\\" /\ BackslashesBefore(raw, i) % 2 = 0

\* The escapes the answers use: \\ \" \/ ; any other is a syntax error.
JsonEscapesOk(raw) ==
    \A i \in 1..Len(raw) :
        IntroducesEscape(raw, i) =>
            (i + 1 <= Len(raw) /\ Char(raw, i + 1) \in {"\\", "\"", "/"})

RECURSIVE JsonDecodeIn(_, _, _)
JsonDecodeIn(raw, lo, hi) ==
    IF lo > hi THEN ""
    ELSE IF lo = hi THEN (IF IntroducesEscape(raw, lo) THEN "" ELSE Char(raw, lo))
    ELSE LET mid == (lo + hi) \div 2
         IN  JsonDecodeIn(raw, lo, mid) \o JsonDecodeIn(raw, mid + 1, hi)

ParsedString(raw) == JsonDecodeIn(Cleaned(raw), 1, Len(Cleaned(raw)))

ParsedValue(v) == IF v.t = "string" THEN JsString(ParsedString(v.s)) ELSE v

\* Whether JSON.parse(cleanedResponse) throws.
ParseThrows(doc) ==
    \/ doc.shape = "malformed"
    \/ ~JsonEscapesOk(Cleaned(doc.message))
    \/ \E j \in 1..Len(doc.urls) :
          doc.urls[j].t = "string" /\ ~JsonEscapesOk(Cleaned(doc.urls[j].s))

---------------------------------------------------------------------------
(* generatePrompt, the request body, the texts of the handler *)

\* "生成一张图片，内容是：" and "，图片风格是："
PromptPrefix == "[zh] generate an image, its content is: "
PromptStyle == "[zh], the image style is: "

\* style is a string (the schema requires one), so `style != undefined` holds.
generatePrompt(content, style) ==
    IF Len(style) > 0
    THEN PromptPrefix \o content \o PromptStyle \o style
    ELSE PromptPrefix \o content

\* JSON.stringify of a string, on its characters lo..hi, by halves
RECURSIVE JsonEscapeIn(_, _, _)
JsonEscapeIn(x, lo, hi) ==
    IF lo > hi THEN ""
    ELSE IF lo = hi
         THEN (IF Char(x, lo) \in {"\"", "\\"} THEN "\\" \o Char(x, lo) ELSE Char(x, lo))
    ELSE LET mid == (lo + hi) \div 2
         IN  JsonEscapeIn(x, lo, mid) \o JsonEscapeIn(x, mid + 1, hi)

JsonString(x) == "\"" \o JsonEscapeIn(x, 1, Len(x)) \o "\""

JsonBool(b) == IF b THEN "true" ELSE "false"

\* JSON.stringify(bodyParams)
FormattedBody(prompt, ratio, use_pre_llm) ==
    "{\"req_key\":\"jimeng_high_aes_general_v21_L\""
    \o ",\"use_pre_llm\":" \o JsonBool(use_pre_llm)
    \o ",\"prompt\":" \o JsonString(prompt)
    \o ",\"return_url\":true"
    \o ",\"width\":" \o ToString(ratio.width)
    \o ",\"height\":" \o ToString(ratio.height) \o "}"

\* "错误：不支持的图片比例 ${ratio}。支持的比例: 4:3, 3:4, 16:9, 9:16"
RatioErrorText(ratio) ==
    "[zh] error: unsupported image ratio " \o ratio
    \o ". supported ratios: 4:3, 3:4, 16:9, 9:16"

\* "错误：未设置环境变量 JIMENG_ACCESS_KEY 和 JIMENG_SECRET_KEY，无法调用API。"
ConfigErrorText ==
    "[zh] error: environment variables JIMENG_ACCESS_KEY and JIMENG_SECRET_KEY are not set, the API cannot be called."

\* "生成图片失败，请检查网络连接和API密钥配置。"
FailureText ==
    "[zh] image generation failed, please check the network connection and the API key configuration."

\* "图片生成成功！\n\nPrompt: ...\n图片比例: ... (w×h)\n图片URL: ..."; the
\* multiplication sign is written x.
SuccessText(final_prompt, ratio, imageSize, imageUrl) ==
    "[zh] image generated!\n\nPrompt: " \o final_prompt
    \o "\n[zh] ratio: " \o ratio \o " (" \o ToString(imageSize.width) \o "x"
    \o ToString(imageSize.height) \o ")\n[zh] URL: " \o imageUrl

\* if (!JIMENG_ACCESS_KEY || !JIMENG_SECRET_KEY), with && for ||
KeysMissingBoth == Falsy(JIMENG_ACCESS_KEY) /\ Falsy(JIMENG_SECRET_KEY)

\* if (!JIMENG_ACCESS_KEY || !JIMENG_SECRET_KEY)
KeysMissing == Falsy(JIMENG_ACCESS_KEY) \/ Falsy(JIMENG_SECRET_KEY)

---------------------------------------------------------------------------
(* The tool invocations *)

ArgChoices ==
    { [prompt |-> "cat", illustration |-> "", ratio |-> "4:3", use_pre_llm |-> FALSE],
      [prompt |-> "a \"dog\"", illustration |-> "ink", ratio |-> "9:16",
       use_pre_llm |-> TRUE] }

NoArgs == [prompt |-> "", illustration |-> "", ratio |-> "", use_pre_llm |-> FALSE]

EnvChoicesAccess == {EnvUndefined, EnvString(""), EnvString("AK")}
EnvChoicesSecret == {EnvUndefined, EnvString(""), EnvString("SK")}

NoRequest == [url |-> "", method |-> "", headers |-> SignHeaders("", "", ""), body |-> ""]

\* The local variables of one invocation: the handler's, callJimengAPI's and
\* (in sig) signV4Request's.
NoFrame ==
    [args |-> NoArgs, imageSize |-> [width |-> 0, height |-> 0],
     final_prompt |-> "", imageUrl |-> JsNull,
     formattedQuery |-> "", formattedBody |-> "",
     t |-> DateOf(0), sig |-> NoSign, authorizationHeader |-> "",
     response |-> NoAnswer]

\* Every invocation's locals live in one shared set of module-level variables.
SharedFrame(i) == 1

\* Each invocation has its own activation records.
Frame(i) == i

Pending == [kind |-> "pending", text |-> ""]
Returned(text) == [kind |-> "returned", text |-> text]
Threw == [kind |-> "threw", text |-> ""]

\* The positions at which an invocation is not on the call stack: before it
\* starts, at an await, and after it has settled.
Suspended(p) == p \in {"idle", "await", "awaitText", "resume", "done"}

Init ==
    /\ JIMENG_ACCESS_KEY \in EnvChoicesAccess
    /\ JIMENG_SECRET_KEY \in EnvChoicesSecret
    /\ now = 0
    /\ running = 0
    /\ pc = [i \in Invocations |-> "idle"]
    /\ frame = [i \in Invocations |-> NoFrame]
    /\ req = [i \in Invocations |-> NoArgs]
    /\ tRead = [i \in Invocations |-> 0]
    /\ resp = [i \in Invocations |-> NoAnswer]
    /\ sent = [i \in Invocations |-> <<>>]
    /\ hmacCount = [i \in Invocations |-> 0]
    /\ clockReads = [i \in Invocations |-> 0]
    /\ errorLog = [i \in Invocations |-> <<>>]
    /\ outcome = [i \in Invocations |-> Pending]
    /\ runIn = [r \in Runs |-> [parameters |-> queryParams, body |-> "",
                                accessKey |-> "", secretKey |-> "", clock |-> 0]]
    /\ runOut = [r \in Runs |-> NoRun]
    /\ runPc = [r \in Runs |-> "unused"]

\* The clock moves on by itself, also while synchronous code runs.
Tick ==
    /\ now < MaxTicks * 500
    /\ now' = now + 500
    /\ UNCHANGED <<JIMENG_ACCESS_KEY, JIMENG_SECRET_KEY, running, pc, frame, req,
                   tRead, resp, sent, hmacCount, clockReads, errorLog, outcome>>

\* The transport calls the handler with schema-valid arguments; the handler
\* runs to its first return or to the call of callJimengAPI.
Invoke(i, a) ==
    /\ pc[i] = "idle"
    /\ running = 0
    /\ req' = [req EXCEPT ![i] = a]
    /\ LET f == Frame(i)
           known == a.ratio \in DOMAIN RATIO_MAPPING
       IN  IF ~known
           THEN /\ frame' = [frame EXCEPT ![f].args = a]
                /\ outcome' = [outcome EXCEPT ![i] = Returned(RatioErrorText(a.ratio))]
                /\ pc' = [pc EXCEPT ![i] = "done"]
                /\ running' = 0
           ELSE IF KeysMissing
           THEN /\ frame' = [frame EXCEPT ![f].args = a,
                                          ![f].imageSize = RATIO_MAPPING[a.ratio]]
                /\ outcome' = [outcome EXCEPT ![i] = Returned(ConfigErrorText)]
                /\ pc' = [pc EXCEPT ![i] = "done"]
                /\ running' = 0
           ELSE /\ frame' = [frame EXCEPT
                                ![f].args = a,
                                ![f].imageSize = RATIO_MAPPING[a.ratio],
                                ![f].final_prompt = generatePrompt(a.prompt, a.illustration)]
                /\ outcome' = outcome
                /\ pc' = [pc EXCEPT ![i] = "call"]
                /\ running' = i
    /\ UNCHANGED <<JIMENG_ACCESS_KEY, JIMENG_SECRET_KEY, now, tRead, resp, sent,
                   hmacCount, clockReads, errorLog>>

\* callJimengAPI up to the try: formattedQuery and formattedBody.
Prepare(i) ==
    /\ pc[i] = "call"
    /\ running = i
    /\ LET f == Frame(i)
       IN  frame' = [frame EXCEPT
                        ![f].formattedQuery = formatQuery(queryParams),
                        ![f].formattedBody =
                            FormattedBody(frame[f].final_prompt, frame[f].imageSize,
                                          frame[f].args.use_pre_llm)]
    /\ pc' = [pc EXCEPT ![i] = "sign"]
    /\ UNCHANGED <<JIMENG_ACCESS_KEY, JIMENG_SECRET_KEY, now, running, req, tRead,
                   resp, sent, hmacCount, clockReads, errorLog, outcome>>

\* signV4Request: const t = new Date(); currentDate; datestamp.
SignRead(i) ==
    /\ pc[i] = "sign"
    /\ running = i
    /\ LET f == Frame(i)
           t == DateOf(now)
           currentDate == CurrentDate(t)
       IN  frame' = [frame EXCEPT ![f].t = t,
                                  ![f].sig.currentDate = currentDate,
                                  ![f].sig.datestamp = Datestamp(currentDate)]
    /\ tRead' = [tRead EXCEPT ![i] = now]
    /\ clockReads' = [clockReads EXCEPT ![i] = @ + 1]
    /\ pc' = [pc EXCEPT ![i] = "canon"]
    /\ UNCHANGED <<JIMENG_ACCESS_KEY, JIMENG_SECRET_KEY, now, running, req, resp,
                   sent, hmacCount, errorLog, outcome>>

\* signV4Request: payloadHash, canonicalHeaders, canonicalRequest,
\* credentialScope, stringToSign.
SignCanonical(i) ==
    /\ pc[i] = "canon"
    /\ running = i
    /\ LET f == Frame(i)
           sg == frame[f].sig
           payloadHash == PayloadHash(frame[f].formattedBody)
           canonicalHeaders == CanonicalHeaders(payloadHash, sg.currentDate)
           canonicalRequest ==
               CanonicalRequest(frame[f].formattedQuery, canonicalHeaders, payloadHash)
           credentialScope == CredentialScope(sg.datestamp, SERVICE)
       IN  frame' = [frame EXCEPT
                        ![f].sig.payloadHash = payloadHash,
                        ![f].sig.canonicalHeaders = canonicalHeaders,
                        ![f].sig.canonicalRequest = canonicalRequest,
                        ![f].sig.credentialScope = credentialScope,
                        ![f].sig.stringToSign =
                            StringToSign(sg.currentDate, credentialScope, canonicalRequest)]
    /\ pc' = [pc EXCEPT ![i] = "derive"]
    /\ UNCHANGED <<JIMENG_ACCESS_KEY, JIMENG_SECRET_KEY, now, running, req, tRead,
                   resp, sent, hmacCount, clockReads, errorLog, outcome>>

\* signV4Request: signingKey (four HMACs), signature (a fifth), the
\* Authorization header, and the returned {headers, requestUrl}.
SignFinal(i) ==
    /\ pc[i] = "derive"
    /\ running = i
    /\ LET f == Frame(i)
           sg == frame[f].sig
           signingKey ==
               getSignatureKey(JIMENG_SECRET_KEY.value, sg.datestamp, REGION, SERVICE)
           signature == Signature(signingKey, sg.stringToSign)
           authorizationHeader ==
               AuthorizationHeader(JIMENG_ACCESS_KEY.value, sg.credentialScope, signature)
       IN  frame' = [frame EXCEPT
                        ![f].sig.signingKey = signingKey,
                        ![f].sig.signature = signature,
                        ![f].authorizationHeader = authorizationHeader,
                        ![f].sig.headers =
                            SignHeaders(sg.currentDate, authorizationHeader, sg.payloadHash),
                        ![f].sig.requestUrl = RequestUrl(frame[f].formattedQuery)]
    /\ hmacCount' = [hmacCount EXCEPT ![i] = @ + 5]
    /\ pc' = [pc EXCEPT ![i] = "fetch"]
    /\ UNCHANGED <<JIMENG_ACCESS_KEY, JIMENG_SECRET_KEY, now, running, req, tRead,
                   resp, sent, clockReads, errorLog, outcome>>

\* fetch(requestUrl, ...) with the body serialised a second time.
FetchRequestRestringified(requestUrl, headers, formattedBody) ==
    [url |-> requestUrl, method |-> "POST", headers |-> headers,
     body |-> JsonString(formattedBody)]

\* fetch(requestUrl, {method: 'POST', headers: headers, body: formattedBody})
FetchRequest(requestUrl, headers, formattedBody) ==
    [url |-> requestUrl, method |-> "POST", headers |-> headers,
     body |-> formattedBody]

\* await fetch(...): the request leaves and the invocation is suspended.
Fetch(i) ==
    /\ pc[i] = "fetch"
    /\ running = i
    /\ LET f == Frame(i)
       IN  sent' = [sent EXCEPT ![i] =
                       Append(@, FetchRequest(frame[f].sig.requestUrl,
                                              frame[f].sig.headers,
                                              frame[f].formattedBody))]
    /\ pc' = [pc EXCEPT ![i] = "await"]
    /\ running' = 0
    /\ UNCHANGED <<JIMENG_ACCESS_KEY, JIMENG_SECRET_KEY, now, frame, req, tRead,
                   resp, hmacCount, clockReads, errorLog, outcome>>


\* The catch block issues the request again (once) instead of giving up.
CatchRetry(i) ==
    [pc |-> IF Len(sent[i]) < 2 THEN "fetch" ELSE "resume", imageUrl |-> JsNull,
     rethrow |-> FALSE]

\* The catch block logs and throws the error on.
CatchRethrow(i) == [pc |-> "done", imageUrl |-> JsNull, rethrow |-> TRUE]

\* catch (error) { console.error(...); return null; }
CatchResult(i) == [pc |-> "resume", imageUrl |-> JsNull, rethrow |-> FALSE]

\* A throw inside the try block of callJimengAPI, r being the response held.
ThrowInTry(i, r, message) ==
    LET f == Frame(i)
        c == CatchResult(i)
    IN  /\ errorLog' = [errorLog EXCEPT ![i] = Append(@, message)]
        /\ frame' = [frame EXCEPT ![f].response = r, ![f].imageUrl = c.imageUrl]
        /\ pc' = [pc EXCEPT ![i] = c.pc]
        /\ running' = IF Suspended(c.pc) THEN 0 ELSE i
        /\ outcome' = IF c.rethrow THEN [outcome EXCEPT ![i] = Threw] ELSE outcome

\* The awaited fetch settles: it rejects, or resolves with a status, and
\* callJimengAPI runs on to `await response.text()`.
RespondHead(i, r) ==
    /\ pc[i] = "await"
    /\ running = 0
    /\ resp' = [resp EXCEPT ![i] = r]
    /\ IF r.net = "reject"
       THEN ThrowInTry(i, r, "TypeError: fetch failed")
       ELSE IF ~r.ok
       THEN ThrowInTry(i, r, "Error: HTTP error! status: " \o ToString(r.status))
       ELSE /\ frame' = [frame EXCEPT ![Frame(i)].response = r]
            /\ pc' = [pc EXCEPT ![i] = "awaitText"]
            /\ running' = 0
            /\ UNCHANGED <<errorLog, outcome>>
    /\ UNCHANGED <<JIMENG_ACCESS_KEY, JIMENG_SECRET_KEY, now, req, tRead, sent,
                   hmacCount, clockReads>>

\* result.ResponseMetadata.Error.Message || 'Unknown error'
ErrorMessage(doc) ==
    IF ParsedString(doc.message) = "" THEN "Unknown error"
    ELSE ParsedString(doc.message)

\* callJimengAPI from responseText to its return or throw: whether it
\* throws, the error thrown, the value returned.
BodyResult(r) ==
    IF r.read = "reject"
    THEN [throws |-> TRUE, error |-> "TypeError: terminated", value |-> JsNull]
    ELSE IF ParseThrows(r.doc)
    THEN [throws |-> TRUE, error |-> "SyntaxError: not valid JSON", value |-> JsNull]
    ELSE IF r.doc.shape = "null"
    THEN [throws |-> TRUE, error |-> "TypeError: cannot read properties of null",
          value |-> JsNull]
    ELSE IF r.doc.meta = "error"
    THEN [throws |-> TRUE, error |-> "Error: API error: " \o ErrorMessage(r.doc),
          value |-> JsNull]
    ELSE IF r.doc.data = "urls" /\ Len(r.doc.urls) > 0
    THEN [throws |-> FALSE, error |-> "", value |-> ParsedValue(r.doc.urls[1])]
    ELSE [throws |-> FALSE, error |-> "", value |-> JsNull]

\* The awaited response.text() settles and callJimengAPI runs to its end.
RespondBody(i) ==
    /\ pc[i] = "awaitText"
    /\ running = 0
    /\ LET f == Frame(i)
           r == frame[f].response
           b == BodyResult(r)
       IN  IF b.throws
           THEN ThrowInTry(i, r, b.error)
           ELSE /\ frame' = [frame EXCEPT ![f].imageUrl = b.value]
                /\ pc' = [pc EXCEPT ![i] = "resume"]
                /\ running' = 0
                /\ UNCHANGED <<errorLog, outcome>>
    /\ UNCHANGED <<JIMENG_ACCESS_KEY, JIMENG_SECRET_KEY, now, req, tRead, resp,
                   sent, hmacCount, clockReads>>

\* The handler after `await callJimengAPI(...)`: the failure text, or the
\* success text, whose template converts imageUrl to a string.
HandlerResult(args, imageSize, final_prompt, imageUrl) ==
    IF JsFalsy(imageUrl) THEN Returned(FailureText)
    ELSE IF imageUrl.t = "object" THEN Threw
    ELSE Returned(SuccessText(final_prompt, args.ratio, imageSize, imageUrl.s))

HandlerReturn(i) ==
    /\ pc[i] = "resume"
    /\ running = 0
    /\ LET f == Frame(i)
       IN  outcome' = [outcome EXCEPT ![i] =
                          HandlerResult(frame[f].args, frame[f].imageSize,
                                        frame[f].final_prompt, frame[f].imageUrl)]
    /\ pc' = [pc EXCEPT ![i] = "done"]
    /\ UNCHANGED <<JIMENG_ACCESS_KEY, JIMENG_SECRET_KEY, now, running, frame, req,
                   tRead, resp, sent, hmacCount, clockReads, errorLog>>

Next ==
    \/ Tick /\ UNCHANGED signVars
    \/ \E i \in Invocations, a \in ArgChoices : Invoke(i, a) /\ UNCHANGED signVars
    \/ \E i \in Invocations : Prepare(i) /\ UNCHANGED signVars
    \/ \E i \in Invocations : SignRead(i) /\ UNCHANGED signVars
    \/ \E i \in Invocations : SignCanonical(i) /\ UNCHANGED signVars
    \/ \E i \in Invocations : SignFinal(i) /\ UNCHANGED signVars
    \/ \E i \in Invocations : Fetch(i) /\ UNCHANGED signVars
    \/ \E i \in Invocations, r \in Answers : RespondHead(i, r) /\ UNCHANGED signVars
    \/ \E i \in Invocations : RespondBody(i) /\ UNCHANGED signVars
    \/ \E i \in Invocations : HandlerReturn(i) /\ UNCHANGED signVars

Spec == Init /\ [][Next]_vars

\* The signing harness: the tool machine stays parked with nothing invoked.
InitSign ==
    /\ JIMENG_ACCESS_KEY = EnvUndefined
    /\ JIMENG_SECRET_KEY = EnvUndefined
    /\ now = 0
    /\ running = 0
    /\ pc = [i \in Invocations |-> "idle"]
    /\ frame = [i \in Invocations |-> NoFrame]
    /\ req = [i \in Invocations |-> NoArgs]
    /\ tRead = [i \in Invocations |-> 0]
    /\ resp = [i \in Invocations |-> NoAnswer]
    /\ sent = [i \in Invocations |-> <<>>]
    /\ hmacCount = [i \in Invocations |-> 0]
    /\ clockReads = [i \in Invocations |-> 0]
    /\ errorLog = [i \in Invocations |-> <<>>]
    /\ outcome = [i \in Invocations |-> Pending]
    /\ InitRuns

SpecSign == InitSign /\ [][NextSign]_vars

---------------------------------------------------------------------------
(* Vocabulary of the properties *)

AccessKeyConfigured == JIMENG_ACCESS_KEY.defined /\ JIMENG_ACCESS_KEY.value # ""
SecretKeyConfigured == JIMENG_SECRET_KEY.defined /\ JIMENG_SECRET_KEY.value # ""

Delivered(i) == resp[i].net # "none"

\* The answer makes a step of callJimengAPI fail: the network call, the HTTP
\* status, reading the body, JSON parsing, or an embedded error object.
Faulted(r) ==
    \/ r.net = "reject"
    \/ /\ r.net = "resolve"
       /\ \/ ~r.ok
          \/ r.read = "reject"
          \/ ParseThrows(r.doc)
          \/ r.doc.shape = "null"
          \/ r.doc.meta = "error"

\* A success status and valid JSON with an error object under the metadata
\* field that carries a message.
UpstreamError(r) ==
    /\ r.net = "resolve" /\ r.ok /\ r.read = "resolve"
    /\ ~ParseThrows(r.doc)
    /\ r.doc.shape = "object"
    /\ r.doc.meta = "error"
    /\ r.doc.message # ""

\* A success status and valid JSON with no error object and no image URL.
EmptyResult(r) ==
    /\ r.net = "resolve" /\ r.ok /\ r.read = "resolve"
    /\ ~ParseThrows(r.doc)
    /\ r.doc.shape = "object"
    /\ r.doc.meta # "error"
    /\ (r.doc.data # "urls" \/ Len(r.doc.urls) = 0)

\* The part of a URL after its first "?", which in a URL on ENDPOINT stands
\* right after ENDPOINT.
QueryPart(url) == SubSeq(url, Len(ENDPOINT) + 2, Len(url))

\* The canonical request a verifier rebuilds from a request as it was sent.
CanonicalOfSent(q) ==
    Join(<<q.method,
           "/",
           QueryPart(q.url),
           "content-type:" \o q.headers.ContentType \o "\n"
             \o "host:" \o HOST \o "\n"
             \o "x-content-sha256:" \o q.headers.XContentSha256 \o "\n"
             \o "x-date:" \o q.headers.XDate \o "\n",
           "content-type;host;x-content-sha256;x-date",
           Sha256Hex(q.body)>>, "\n")

\* The request an invocation with arguments a sends when the keys are ak and
\* sk and its clock reading is clk, computed in one piece from those alone.
RequestOf(ak, sk, a, clk) ==
    LET body == FormattedBody(generatePrompt(a.prompt, a.illustration),
                              RATIO_MAPPING[a.ratio], a.use_pre_llm)
        sg == signV4Request(ak.value, sk.value, SERVICE, formatQuery(queryParams),
                            body, DateOf(clk))
    IN  FetchRequest(sg.requestUrl, sg.headers, body)

RequestTable ==
    [ak \in EnvChoicesAccess, sk \in EnvChoicesSecret, a \in ArgChoices,
     clk \in ClockChoices |-> RequestOf(ak, sk, a, clk)]

ExpectedRequest(a, clk) == RequestTable[JIMENG_ACCESS_KEY, JIMENG_SECRET_KEY, a, clk]

\* The way an invocation with arguments a settles on answer r, computed in
\* one piece from those two alone.
OutcomeOf(a, r) ==
    IF r.net = "reject" \/ ~r.ok THEN Returned(FailureText)
    ELSE IF BodyResult(r).throws THEN Returned(FailureText)
    ELSE HandlerResult(a, RATIO_MAPPING[a.ratio],
                       generatePrompt(a.prompt, a.illustration), BodyResult(r).value)

OutcomeTable == [a \in ArgChoices, r \in Answers |-> OutcomeOf(a, r)]

ExpectedOutcome(a, r) == OutcomeTable[a, r]

\* The formatted timestamp of each clock value.
StampTable == [clk \in ClockChoices |-> CurrentDate(DateOf(clk))]

FaultedAnswers == {r \in Answers : Faulted(r)}
UpstreamErrorAnswers == {r \in Answers : UpstreamError(r)}
EmptyResultAnswers == {r \in Answers : EmptyResult(r)}

\* The key=value pairs of P joined by "&", each pair at the position its
\* key's rank gives it: one more than the number of keys below it.
ExpectedCanonicalQuery(P) ==
    LET n == Len(P)
        rank == [j \in 1..n |->
                    1 + Cardinality({k \in 1..n : StrLess(P[k][1], P[j][1])})]
        at == [pos \in 1..n |-> CHOOSE j \in 1..n : rank[j] = pos]
    IN  Join([pos \in 1..n |-> P[at[pos]][1] \o "=" \o P[at[pos]][2]], "&")

BothSigned == \A r \in Runs : runPc[r] = "signed"

\* The inputs in which the two signing runs differ; the timestamp is the
\* formatted one (YYYYMMDDTHHMMSSZ), the query the formatted query string.
DiffSet ==
    {x \in {"body", "query", "accessKey", "secretKey", "timestamp"} :
        CASE x = "body" -> runIn[1].body # runIn[2].body
          [] x = "query" -> runOut[1].query # runOut[2].query
          [] x = "accessKey" -> runIn[1].accessKey # runIn[2].accessKey
          [] x = "secretKey" -> runIn[1].secretKey # runIn[2].secretKey
          [] x = "timestamp" ->
                 StampTable[runIn[1].clock] # StampTable[runIn[2].clock]}

---------------------------------------------------------------------------
(* Properties *)

\* C1: when the access key or the secret key is undefined or empty, every
\* invocation that has started has already returned the configuration-error
\* text, and has made no HMAC computation, no clock reading and no request.
C1_MissingCredentialsShortCircuit ==
    (~AccessKeyConfigured \/ ~SecretKeyConfigured) =>
        \A i \in Invocations :
            pc[i] # "idle" =>
                /\ pc[i] = "done"
                /\ outcome[i] = Returned(ConfigErrorText)
                /\ hmacCount[i] = 0
                /\ clockReads[i] = 0
                /\ Len(sent[i]) = 0

C1_Witness ==
    \E i \in Invocations :
        /\ AccessKeyConfigured /\ ~SecretKeyConfigured
        /\ pc[i] = "done"
        /\ outcome[i] = Returned(ConfigErrorText)

C3_UpstreamMessageSurfaced ==
    \A i \in Invocations :
        (pc[i] = "done" /\ resp[i] \in UpstreamErrorAnswers) =>
            /\ outcome[i].kind = "returned"
            /\ Contains(outcome[i].text, ParsedString(resp[i].doc.message))

\* C4 as claimed: two signing runs that differ in exactly one of body, query
\* string, access key, secret key, timestamp produce different signatures.
C4_SensitiveToEveryInput ==
    (BothSigned /\ Cardinality(DiffSet) = 1) =>
        runOut[1].sig.signature # runOut[2].sig.signature

\* C4 as amended: two signing runs that differ in exactly one of body, query
\* string, secret key, timestamp produce different signatures; two that
\* differ in the access key alone produce the same signature and different
\* Authorization headers.
C4_SensitiveToSignedInputs ==
    BothSigned =>
        /\ (Cardinality(DiffSet) = 1 /\ DiffSet # {"accessKey"}) =>
               runOut[1].sig.signature # runOut[2].sig.signature
        /\ DiffSet = {"accessKey"} =>
               /\ runOut[1].sig.signature = runOut[2].sig.signature
               /\ runOut[1].sig.headers.Authorization
                      # runOut[2].sig.headers.Authorization

C4_Witness ==
    /\ BothSigned
    /\ DiffSet = {"query"}
    /\ runOut[1].sig.signature # runOut[2].sig.signature

\* C5: a signing call reads the clock once, and the X-Date header it returns,
\* the x-date line of its canonical headers, the timestamp line of its
\* string-to-sign, the date of its credential scope and the date stamp of its
\* key derivation all come from that one reading.
C5_OneClockReading ==
    \A i \in Invocations :
        (pc[i] = "fetch" \/ Len(sent[i]) > 0) =>
            LET sg == frame[i].sig
                stamp == StampTable[tRead[i]]
            IN  /\ clockReads[i] = 1
                /\ sg.headers.XDate = stamp
                /\ sg.canonicalHeaders =
                       "content-type:application/json\nhost:" \o HOST
                       \o "\nx-content-sha256:" \o sg.payloadHash
                       \o "\nx-date:" \o stamp \o "\n"
                /\ sg.credentialScope =
                       SubSeq(stamp, 1, 8) \o "/" \o REGION \o "/" \o SERVICE \o "/request"
                /\ sg.stringToSign =
                       "HMAC-SHA256\n" \o stamp \o "\n" \o sg.credentialScope \o "\n"
                       \o Sha256Hex(sg.canonicalRequest)
                /\ sg.signingKey =
                       getSignatureKey(JIMENG_SECRET_KEY.value, SubSeq(stamp, 1, 8),
                                       REGION, SERVICE)

\* The clock has moved to another second while the signing call was running.
C5_Witness ==
    \E i \in Invocations :
        /\ pc[i] = "fetch"
        /\ frame[i].sig.headers.XDate # ""
        /\ StampTable[now] # frame[i].sig.headers.XDate

\* C6: the formatted query is the key=value pairs joined by "&" with the keys
\* in ascending order, whatever the insertion order, and it is the third line
\* of the canonical request that is signed.
C6_CanonicalQuerySorted ==
    \A r \in Runs :
        /\ runPc[r] \in {"formatted", "signed"} =>
               runOut[r].query = ExpectedCanonicalQuery(runIn[r].parameters)
        /\ runPc[r] = "signed" =>
               runOut[r].sig.canonicalRequest =
                   "POST\n/\n" \o ExpectedCanonicalQuery(runIn[r].parameters) \o "\n"
                   \o runOut[r].sig.canonicalHeaders
                   \o "\ncontent-type;host;x-content-sha256;x-date\n"
                   \o runOut[r].sig.payloadHash

C6_Witness ==
    \E r \in Runs :
        /\ runPc[r] = "signed"
        /\ runIn[r].parameters[1][1] = "Version"
        /\ runOut[r].query = "Action=CVProcess&Version=2022-08-31"
        /\ Contains(runOut[r].sig.canonicalRequest, "\n" \o runOut[r].query \o "\n")

\* C7: an invocation issues at most one HTTP request; none when a credential
\* is missing; exactly one, once it is past the fetch, when both credentials
\* are present, whatever the upstream answered.
C7_OneRequestPerInvocation ==
    \A i \in Invocations :
        /\ Len(sent[i]) <= 1
        /\ (~AccessKeyConfigured \/ ~SecretKeyConfigured) => Len(sent[i]) = 0
        /\ (/\ AccessKeyConfigured /\ SecretKeyConfigured
            /\ req[i].ratio \in Ratios
            /\ pc[i] \in {"await", "awaitText", "resume", "done"}) =>
               Len(sent[i]) = 1

C7_Witness ==
    \E i \in Invocations :
        /\ pc[i] = "done"
        /\ resp[i] = AnsHttp500
        /\ Len(sent[i]) = 1

\* C8: under every interleaving, the request an invocation sent is the one
\* computed from its own arguments and its own clock reading, and the way it
\* settled is the one computed from its own arguments and its own answer.
C8_InvocationsIndependent ==
    \A i \in Invocations :
        /\ \A k \in 1..Len(sent[i]) : sent[i][k] = ExpectedRequest(req[i], tRead[i])
        /\ (pc[i] = "done" /\ Delivered(i)) =>
               outcome[i] = ExpectedOutcome(req[i], resp[i])

\* Two invocations with different arguments overlap: the one that signed
\* later has settled with an image while the other still awaits its answer.
C8_Witness ==
    \E i, j \in Invocations :
        /\ i # j
        /\ req[i] # req[j]
        /\ pc[i] = "done" /\ resp[i] = AnsUrl /\ outcome[i].kind = "returned"
        /\ pc[j] = "await"
        /\ tRead[j] < tRead[i]

\* C9: an empty result raises and catches no fault, and what the caller is
\* told for it differs from what the caller is told for a failed step.
C9_EmptyResultDistinct ==
    \A i, j \in Invocations :
        (pc[i] = "done" /\ resp[i] \in EmptyResultAnswers) =>
            /\ Len(errorLog[i]) = 0
            /\ (pc[j] = "done" /\ resp[j] \in FaultedAnswers) =>
                   outcome[i] # outcome[j]

\* C10: every request sent is the request that was signed: the canonical
\* request rebuilt from the URL's query, the headers and the body as sent is
\* the canonical request whose hash was signed, and the Authorization header
\* sent carries the signature over it.
C10_SentIsSigned ==
    \A i \in Invocations :
        \A k \in 1..Len(sent[i]) :
            LET q == sent[i][k]
                sg == frame[i].sig
            IN  /\ q.url = ENDPOINT \o "?" \o QueryPart(q.url)
                /\ CanonicalOfSent(q) = sg.canonicalRequest
                /\ Sha256Hex(q.body) = sg.payloadHash
                /\ q.headers.Authorization =
                       "HMAC-SHA256 Credential=" \o JIMENG_ACCESS_KEY.value \o "/"
                       \o sg.credentialScope
                       \o ", SignedHeaders=content-type;host;x-content-sha256;x-date"
                       \o ", Signature="
                       \o HmacHex(sg.signingKey,
                                  Join(<<"HMAC-SHA256", q.headers.XDate, sg.credentialScope,
                                         Sha256Hex(CanonicalOfSent(q))>>, "\n"))

C10_Witness ==
    \E i \in Invocations :
        /\ pc[i] = "await"
        /\ Len(sent[i]) = 1
        /\ sent[i][1].body = frame[i].formattedBody
        /\ req[i].prompt = "a \"dog\""

=============================================================================
